---- MODULE Spec2Model ----
(***************************************************************************)
(* Private network validator of emissary-core (private_network.rs).       *)
(*                                                                         *)
(* The validator is built once from an optional PrivateNetworkConfig and   *)
(* then only read: three admission predicates (tunnel hop, floodfill,      *)
(* routing table) over a router id and a router info.                      *)
(***************************************************************************)
EXTENDS Integers, Sequences, FiniteSets

\* ------------------------------------------------------------------------
\* Bounds of the model
\* ------------------------------------------------------------------------

\* longest configured known_relays list
MaxRelays == 2

\* ------------------------------------------------------------------------
\* Option<T>: None is the empty sequence, Some(x) the one-element sequence
\* ------------------------------------------------------------------------
NONE == << >>

Some(x) == << x >>

\* ------------------------------------------------------------------------
\* Relay strings.  A string is the sequence of its characters, each given by
\* its index in the base64 alphabet (0..63); BadChar is a character outside
\* the alphabet.
\* ------------------------------------------------------------------------
BadChar == 64

Fill(c, n) == [i \in 1..n |-> c]

\* "test_relay_1", the string the unit tests configure: t e s t _ r e l a y _ 1
TestRelay1 == << 45, 30, 44, 45, BadChar, 43, 30, 37, 26, 50, BadChar, 53 >>

\* 43 characters carry 258 bits: 32 bytes
StrA == Fill(0, 43)

StrB == Fill(63, 43)

\* 42 characters carry 252 bits: 31 bytes
StrShort == Fill(21, 42)

\* 44 characters carry 264 bits: 33 bytes
StrLong == Fill(0, 44)

RelayStrings == { TestRelay1, StrA, StrB, StrShort, StrLong }

\* the identity codec: None on a character outside the alphabet or on a
\* length no encoding has, else the bytes the 6-bit groups spell
Pow2(n) == IF n = 0 THEN 1 ELSE IF n = 2 THEN 4 ELSE 16

DecodedByte(s, j) ==
    LET q == (8 * j) \div 6
        r == (8 * j) % 6
    IN  ((s[q + 1] * 64 + s[q + 2]) \div Pow2(4 - r)) % 256

base64_decode(s) ==
    IF \E i \in DOMAIN s : s[i] = BadChar
    THEN NONE
    ELSE IF Len(s) % 4 = 1
         THEN NONE
         ELSE Some([j \in 1..((Len(s) * 6) \div 8) |-> DecodedByte(s, j - 1)])

\* ------------------------------------------------------------------------
\* Router ids: 32 raw bytes
\* ------------------------------------------------------------------------
RouterIdLen == 32

IdA == Fill(0, RouterIdLen)

IdB == Fill(255, RouterIdLen)

\* an id no relay string of the model decodes to
IdC == Fill(7, RouterIdLen)

RouterIds == { IdA, IdB, IdC }

\* ------------------------------------------------------------------------
\* Router infos, as far as the validator reads them
\* ------------------------------------------------------------------------
RouterInfos ==
    [is_fast : BOOLEAN, is_floodfill : BOOLEAN,
     is_reachable : BOOLEAN, is_usable : BOOLEAN]

\* ------------------------------------------------------------------------
\* Configurations
\* ------------------------------------------------------------------------
BandwidthCodes == { "O", "P", "X", "L" }

MinBandwidths == { NONE } \cup { Some(b) : b \in BandwidthCodes }

RelayLists == UNION { [1..n -> RelayStrings] : n \in 0..MaxRelays }

PrivateNetworkConfig ==
    [enabled : BOOLEAN, known_relays : RelayLists, min_bandwidth : MinBandwidths]

Configs == { NONE } \cup { Some(c) : c \in PrivateNetworkConfig }

\* ------------------------------------------------------------------------
\* PrivateNetworkValidator
\* ------------------------------------------------------------------------

\* parse_relay without the length check
parse_relay_any_length(relay_str) ==
    LET decoded == base64_decode(relay_str)
    IN  IF decoded = NONE THEN NONE ELSE Some(decoded[1])

\* the closure of new(): a relay string to a router id, if it is one
parse_relay(relay_str) ==
    LET decoded == base64_decode(relay_str)
    IN  IF decoded = NONE
        THEN NONE
        ELSE IF Len(decoded[1]) = RouterIdLen
             THEN Some(decoded[1])
             ELSE NONE

new(config) ==
    IF config # NONE /\ config[1].enabled
    THEN [enabled |-> TRUE,
          known_relays |->
              { parse_relay(config[1].known_relays[i])[1] :
                  i \in { k \in DOMAIN config[1].known_relays :
                            parse_relay(config[1].known_relays[k]) # NONE } },
          min_bandwidth |-> config[1].min_bandwidth]
    ELSE [enabled |-> FALSE, known_relays |-> {}, min_bandwidth |-> NONE]

is_enabled(self) == self.enabled

is_known_relay(self, router_id) == router_id \in self.known_relays

known_relay_count(self) == Cardinality(self.known_relays)

\* meets_bandwidth_requirement with "X" missing from the fast-tier codes
meets_bandwidth_requirement_no_x(self, router_info, min_bandwidth) ==
    IF min_bandwidth \in { "O", "P" }
    THEN router_info.is_fast
    ELSE FALSE

\* meets_bandwidth_requirement answering is_fast for every code
meets_bandwidth_requirement_fail_open(self, router_info, min_bandwidth) ==
    IF min_bandwidth \in { "O", "P", "X" }
    THEN router_info.is_fast
    ELSE router_info.is_fast

meets_bandwidth_requirement(self, router_info, min_bandwidth) ==
    IF min_bandwidth \in { "O", "P", "X" }
    THEN router_info.is_fast
    ELSE FALSE

\* can_be_tunnel_hop rejecting only a router neither reachable nor usable
can_be_tunnel_hop_and_liveness(self, router_id, router_info) ==
    IF ~self.enabled
    THEN TRUE
    ELSE IF ~is_known_relay(self, router_id)
    THEN FALSE
    ELSE IF /\ self.min_bandwidth # NONE
            /\ ~meets_bandwidth_requirement(self, router_info, self.min_bandwidth[1])
    THEN FALSE
    ELSE IF ~router_info.is_reachable /\ ~router_info.is_usable
    THEN FALSE
    ELSE TRUE

\* can_be_tunnel_hop without the reachable/usable check
can_be_tunnel_hop_no_liveness(self, router_id, router_info) ==
    IF ~self.enabled
    THEN TRUE
    ELSE IF ~is_known_relay(self, router_id)
    THEN FALSE
    ELSE IF /\ self.min_bandwidth # NONE
            /\ ~meets_bandwidth_requirement(self, router_info, self.min_bandwidth[1])
    THEN FALSE
    ELSE TRUE

can_be_tunnel_hop(self, router_id, router_info) ==
    IF ~self.enabled
    THEN TRUE
    ELSE IF ~is_known_relay(self, router_id)
    THEN FALSE
    ELSE IF /\ self.min_bandwidth # NONE
            /\ ~meets_bandwidth_requirement(self, router_info, self.min_bandwidth[1])
    THEN FALSE
    ELSE IF ~router_info.is_reachable \/ ~router_info.is_usable
    THEN FALSE
    ELSE TRUE

\* can_be_floodfill accepting every router when disabled
can_be_floodfill_disabled_true(self, router_id, router_info) ==
    IF ~self.enabled
    THEN TRUE
    ELSE IF ~is_known_relay(self, router_id)
    THEN FALSE
    ELSE IF ~router_info.is_floodfill
    THEN FALSE
    ELSE IF /\ self.min_bandwidth # NONE
            /\ ~meets_bandwidth_requirement(self, router_info, self.min_bandwidth[1])
    THEN FALSE
    ELSE TRUE

\* can_be_floodfill with the reachable/usable check of the other predicates
can_be_floodfill_liveness(self, router_id, router_info) ==
    IF ~self.enabled
    THEN router_info.is_floodfill
    ELSE IF ~is_known_relay(self, router_id)
    THEN FALSE
    ELSE IF ~router_info.is_floodfill
    THEN FALSE
    ELSE IF /\ self.min_bandwidth # NONE
            /\ ~meets_bandwidth_requirement(self, router_info, self.min_bandwidth[1])
    THEN FALSE
    ELSE IF ~router_info.is_reachable \/ ~router_info.is_usable
    THEN FALSE
    ELSE TRUE

can_be_floodfill(self, router_id, router_info) ==
    IF ~self.enabled
    THEN router_info.is_floodfill
    ELSE IF ~is_known_relay(self, router_id)
    THEN FALSE
    ELSE IF ~router_info.is_floodfill
    THEN FALSE
    ELSE IF /\ self.min_bandwidth # NONE
            /\ ~meets_bandwidth_requirement(self, router_info, self.min_bandwidth[1])
    THEN FALSE
    ELSE TRUE

\* can_be_added_to_routing_table without the known-relay check
can_be_added_to_routing_table_no_allow_list(self, router_id, router_info) ==
    IF ~self.enabled
    THEN TRUE
    ELSE IF ~router_info.is_reachable \/ ~router_info.is_usable
    THEN FALSE
    ELSE TRUE

\* can_be_added_to_routing_table with the bandwidth check of the other predicates
can_be_added_to_routing_table_bandwidth(self, router_id, router_info) ==
    IF ~self.enabled
    THEN TRUE
    ELSE IF ~is_known_relay(self, router_id)
    THEN FALSE
    ELSE IF /\ self.min_bandwidth # NONE
            /\ ~meets_bandwidth_requirement(self, router_info, self.min_bandwidth[1])
    THEN FALSE
    ELSE IF ~router_info.is_reachable \/ ~router_info.is_usable
    THEN FALSE
    ELSE TRUE

can_be_added_to_routing_table(self, router_id, router_info) ==
    IF ~self.enabled
    THEN TRUE
    ELSE IF ~is_known_relay(self, router_id)
    THEN FALSE
    ELSE IF ~router_info.is_reachable \/ ~router_info.is_usable
    THEN FALSE
    ELSE TRUE

\* ------------------------------------------------------------------------
\* State: the configuration the validator was built from, the validator, the
\* peer a caller presents, and what each predicate answered for that peer.
\* ------------------------------------------------------------------------
VARIABLES config, validator, router_id, router_info, tunnel_hop, floodfill, routing_table

vars == << config, validator, router_id, router_info, tunnel_hop, floodfill, routing_table >>

Init ==
    /\ config \in Configs
    /\ validator = new(config)
    /\ router_id \in RouterIds
    /\ router_info \in RouterInfos
    /\ tunnel_hop = NONE
    /\ floodfill = NONE
    /\ routing_table = NONE

CanBeTunnelHop ==
    /\ tunnel_hop' = Some(can_be_tunnel_hop(validator, router_id, router_info))
    /\ UNCHANGED << config, validator, router_id, router_info, floodfill, routing_table >>

CanBeFloodfill ==
    /\ floodfill' = Some(can_be_floodfill(validator, router_id, router_info))
    /\ UNCHANGED << config, validator, router_id, router_info, tunnel_hop, routing_table >>

CanBeAddedToRoutingTable ==
    /\ routing_table' = Some(can_be_added_to_routing_table(validator, router_id, router_info))
    /\ UNCHANGED << config, validator, router_id, router_info, tunnel_hop, floodfill >>

Next ==
    \/ CanBeTunnelHop
    \/ CanBeFloodfill
    \/ CanBeAddedToRoutingTable

Spec == Init /\ [][Next]_vars

TypeOK ==
    /\ config \in Configs
    /\ validator.enabled \in BOOLEAN
    /\ validator.min_bandwidth \in MinBandwidths
    /\ router_id \in RouterIds
    /\ router_info \in RouterInfos
    /\ tunnel_hop \in { NONE, Some(TRUE), Some(FALSE) }
    /\ floodfill \in { NONE, Some(TRUE), Some(FALSE) }
    /\ routing_table \in { NONE, Some(TRUE), Some(FALSE) }

\* ------------------------------------------------------------------------
\* Properties
\* ------------------------------------------------------------------------
Enabled == config # NONE /\ config[1].enabled

Live(d) == d.is_reachable /\ d.is_usable

\* a descriptor meets a tier code: the code is a fast-tier code and the
\* descriptor is fast
MeetsTier(d, code) == code \in { "O", "P", "X" } /\ d.is_fast

BandwidthOk(d) ==
    validator.min_bandwidth = NONE \/ MeetsTier(d, validator.min_bandwidth[1])

C2_DisabledPermissive ==
    ~Enabled =>
        /\ ~is_enabled(validator)
        /\ tunnel_hop # NONE => tunnel_hop = Some(TRUE)
        /\ routing_table # NONE => routing_table = Some(TRUE)
        /\ floodfill # NONE => floodfill = Some(router_info.is_floodfill)
        /\ \A kr \in SUBSET RouterIds, mb \in MinBandwidths :
              LET v == [enabled |-> FALSE, known_relays |-> kr, min_bandwidth |-> mb]
              IN  /\ can_be_tunnel_hop(v, router_id, router_info)
                  /\ can_be_added_to_routing_table(v, router_id, router_info)
                  /\ can_be_floodfill(v, router_id, router_info) = router_info.is_floodfill

C2_Witness ==
    /\ config = Some([enabled |-> FALSE, known_relays |-> << StrA >>,
                      min_bandwidth |-> Some("L")])
    /\ router_id = IdC
    /\ router_info = [is_fast |-> FALSE, is_floodfill |-> FALSE,
                      is_reachable |-> FALSE, is_usable |-> FALSE]
    /\ tunnel_hop = Some(TRUE)
    /\ routing_table = Some(TRUE)
    /\ floodfill = Some(FALSE)

TestConfig ==
    Some([enabled |-> TRUE, known_relays |-> << TestRelay1 >>,
          min_bandwidth |-> Some("X")])

CapsLR == [is_fast |-> FALSE, is_floodfill |-> FALSE,
           is_reachable |-> TRUE, is_usable |-> TRUE]

CapsXR == [is_fast |-> TRUE, is_floodfill |-> FALSE,
           is_reachable |-> TRUE, is_usable |-> TRUE]

C4_TestBandwidthEnforcement ==
    (config = TestConfig /\ tunnel_hop # NONE) =>
        /\ router_info = CapsLR => tunnel_hop = Some(FALSE)
        /\ router_info = CapsXR => tunnel_hop = Some(TRUE)

\* C5 (bandwidth scenario), as stated: allow-list {A}, min_bandwidth "X";
\* for every descriptor presented for A, can_be_tunnel_hop is false when the
\* descriptor is not fast and true when it is fast.
C5_Scenario ==
    /\ Enabled
    /\ validator.known_relays = { IdA }
    /\ validator.min_bandwidth = Some("X")
    /\ router_id = IdA
    /\ tunnel_hop # NONE

C5_Original ==
    C5_Scenario => (tunnel_hop[1] = router_info.is_fast)

\* C5 amended: in that scenario a descriptor that is not fast is refused, and
\* a fast descriptor is accepted exactly when it is reachable and usable.
C5_BandwidthScenario ==
    C5_Scenario =>
        /\ ~router_info.is_fast => tunnel_hop = Some(FALSE)
        /\ router_info.is_fast => (tunnel_hop[1] = Live(router_info))

C5_Witness ==
    /\ C5_Scenario
    /\ router_info.is_fast
    /\ Live(router_info)
    /\ tunnel_hop = Some(TRUE)

\* C6 (allow-list construction): for an enabled configuration the allow-list
\* is exactly the set of 32-byte decodings of the configured strings, its
\* size never exceeds the number of strings, and min_bandwidth is copied; for
\* an absent or not-enabled configuration the validator is disabled with an
\* empty allow-list and no min_bandwidth.
ValidIdentities(strings) ==
    { b \in { base64_decode(strings[i]) : i \in DOMAIN strings } :
        b # NONE /\ Len(b[1]) = 32 }

C6_AllowListConstruction ==
    /\ Enabled =>
        /\ validator.enabled
        /\ validator.known_relays =
              { b[1] : b \in ValidIdentities(config[1].known_relays) }
        /\ known_relay_count(validator) =
              Cardinality(ValidIdentities(config[1].known_relays))
        /\ known_relay_count(validator) <= Len(config[1].known_relays)
        /\ validator.min_bandwidth = config[1].min_bandwidth
    /\ ~Enabled =>
        validator = [enabled |-> FALSE, known_relays |-> {}, min_bandwidth |-> NONE]

C6_Witness ==
    /\ Enabled
    /\ config[1].known_relays = << StrLong, StrA >>
    /\ config[1].min_bandwidth = Some("P")
    /\ validator.known_relays = { IdA }
    /\ known_relay_count(validator) = 1

\* C7 (bandwidth fail-closed): enabled with a min_bandwidth other than "O",
\* "P", "X", tunnel hop and floodfill refuse every id and descriptor; for
\* "O", "P", "X" the bandwidth check is the descriptor's is_fast.
C7_BandwidthFailClosed ==
    /\ (/\ Enabled
        /\ validator.min_bandwidth # NONE
        /\ validator.min_bandwidth[1] \notin { "O", "P", "X" }) =>
            /\ tunnel_hop # NONE => tunnel_hop = Some(FALSE)
            /\ floodfill # NONE => floodfill = Some(FALSE)
    /\ \A code \in { "O", "P", "X" } :
          meets_bandwidth_requirement(validator, router_info, code) = router_info.is_fast

C7_Witness ==
    /\ Enabled
    /\ validator.min_bandwidth = Some("L")
    /\ router_id \in validator.known_relays
    /\ router_info = [is_fast |-> TRUE, is_floodfill |-> TRUE,
                      is_reachable |-> TRUE, is_usable |-> TRUE]
    /\ tunnel_hop = Some(FALSE)
    /\ floodfill = Some(FALSE)

\* C8 (floodfill decision table): enabled, can_be_floodfill is true exactly
\* when the id is in the allow-list, the descriptor has the floodfill
\* capability and the bandwidth tier (if any) is met; reachability and
\* usability do not change the answer.
C8_FloodfillTable ==
    (Enabled /\ floodfill # NONE) =>
        /\ floodfill[1] = (/\ router_id \in validator.known_relays
                           /\ router_info.is_floodfill
                           /\ BandwidthOk(router_info))
        /\ ~router_info.is_floodfill => floodfill = Some(FALSE)
        /\ \A r \in BOOLEAN, u \in BOOLEAN :
              can_be_floodfill(validator, router_id,
                               [router_info EXCEPT !.is_reachable = r, !.is_usable = u])
                  = floodfill[1]

C8_Witness ==
    /\ Enabled
    /\ router_id \in validator.known_relays
    /\ router_info.is_floodfill
    /\ ~router_info.is_reachable
    /\ ~router_info.is_usable
    /\ floodfill = Some(TRUE)

\* C9 (routing-table bandwidth independence): enabled,
\* can_be_added_to_routing_table is true exactly when the id is in the
\* allow-list and the descriptor is reachable and usable; no min_bandwidth
\* and no is_fast value changes the answer.
C9_RoutingTableTable ==
    (Enabled /\ routing_table # NONE) =>
        /\ routing_table[1] = (router_id \in validator.known_relays /\ Live(router_info))
        /\ \A mb \in MinBandwidths, f \in BOOLEAN :
              can_be_added_to_routing_table(
                  [validator EXCEPT !.min_bandwidth = mb], router_id,
                  [router_info EXCEPT !.is_fast = f]) = routing_table[1]

C9_Witness ==
    /\ Enabled
    /\ validator.min_bandwidth = Some("X")
    /\ router_id \in validator.known_relays
    /\ ~router_info.is_fast
    /\ Live(router_info)
    /\ routing_table = Some(TRUE)

\* C10 (role consistency): a peer accepted as tunnel hop is accepted into the
\* routing table, for every validator; a floodfill acceptance does not imply
\* it: enabled, an accepted floodfill that is not reachable or not usable is
\* refused by the routing table.
C10_RoleConsistency ==
    /\ tunnel_hop = Some(TRUE) =>
        /\ can_be_added_to_routing_table(validator, router_id, router_info)
        /\ routing_table # NONE => routing_table = Some(TRUE)
    /\ (/\ validator.enabled
        /\ floodfill = Some(TRUE)
        /\ ~Live(router_info)
        /\ routing_table # NONE) => routing_table = Some(FALSE)

C10_Witness ==
    /\ validator.enabled
    /\ validator.min_bandwidth = Some("O")
    /\ tunnel_hop = Some(TRUE)
    /\ routing_table = Some(TRUE)

\* a floodfill that is no routing-table entry
C10_FloodfillNotRouted ==
    /\ floodfill = Some(TRUE)
    /\ routing_table = Some(FALSE)
====
